---- MODULE Spec2Model ----
(***************************************************************************)
(* python_skeleton: name validation (validation.rs), the directory plan    *)
(* and builder (dir_builder.rs), the file manifest and builder             *)
(* (files_builder.rs) and the staged build with rollback (lib.rs).         *)
(*                                                                         *)
(* Names, paths and file contents are strings; a character is a string of  *)
(* length one.  A filesystem path is the sequence of its components from   *)
(* the filesystem root.                                                    *)
(***************************************************************************)
EXTENDS Integers, Sequences, FiniteSets, TLC

\* ------------------------------------------------------------------ bounds
\* Longest raw name the validation specification enumerates.
MaxLen == 3
\* I/O faults (permission, disk full, ...) the environment may inject.
MaxFaults == 2
\* Invocations of build_skeleton against the same filesystem.
MaxRuns == 2

\* -------------------------------------------------------------- characters
Char(s, i) == SubSeq(s, i, i)

Rest(s) == SubSeq(s, 2, Len(s))

LowerLetters == "abcdefghijklmnopqrstuvwxyz"

UpperLetters == "ABCDEFGHIJKLMNOPQRSTUVWXYZ"

DecimalDigits == "0123456789"

\* Letters outside ASCII that the model's alphabet knows: U+00E9 and U+00C9.
OtherLowerLetters == "é"

OtherUpperLetters == "É"

\* Position of character c in string s, 0 when absent.
IndexOf(c, s) ==
    IF \E i \in 1..Len(s) : Char(s, i) = c
    THEN CHOOSE i \in 1..Len(s) : Char(s, i) = c
    ELSE 0

\* char::is_numeric on the characters of the model's alphabet
is_numeric(c) == IndexOf(c, DecimalDigits) > 0

\* char::is_alphabetic (the Unicode property Alphabetic) on the characters of
\* the model's alphabet
is_alphabetic(c) ==
    \/ IndexOf(c, LowerLetters) > 0
    \/ IndexOf(c, UpperLetters) > 0
    \/ IndexOf(c, OtherLowerLetters) > 0
    \/ IndexOf(c, OtherUpperLetters) > 0

\* char::to_ascii_uppercase
to_ascii_uppercase(c) ==
    IF IndexOf(c, LowerLetters) > 0
    THEN Char(UpperLetters, IndexOf(c, LowerLetters))
    ELSE c

\* char lower-casing, as str::to_lowercase applies it to each character
char_to_lowercase(c) ==
    IF IndexOf(c, UpperLetters) > 0
    THEN Char(LowerLetters, IndexOf(c, UpperLetters))
    ELSE IF IndexOf(c, OtherUpperLetters) > 0
    THEN Char(OtherLowerLetters, IndexOf(c, OtherUpperLetters))
    ELSE c

RECURSIVE to_lowercase(_)
\* str::to_lowercase
to_lowercase(s) ==
    IF s = "" THEN ""
    ELSE char_to_lowercase(Char(s, 1)) \o to_lowercase(Rest(s))

\* -------------------------------------------------------------- validation
NumberNotAllowed == "NumberNotAllowed"

SpecialCharNotAllowed == "SpecialCharNotAllowed"

SnakeCase == "SnakeCase"

TrainCase == "TrainCase"

\* Result<String, ErrorCase>
Ok(s) == [ok |-> TRUE, val |-> s]

Err(e) == [ok |-> FALSE, val |-> e]

RECURSIVE snake_loop(_, _)
\* the for loop of validate_name_snake, from character i on
snake_loop(name, i) ==
    IF i > Len(name) THEN Ok(to_lowercase(name))
    ELSE LET c == Char(name, i) IN
         IF is_numeric(c) THEN Err(NumberNotAllowed)
         ELSE IF ~is_alphabetic(c) /\ c # "_" THEN Err(SpecialCharNotAllowed)
         ELSE snake_loop(name, i + 1)

\* Faulty variant: the accepted name is returned as it was given.
validate_name_snake_keeps_case(name) ==
    LET r == snake_loop(name, 1) IN IF r.ok THEN Ok(name) ELSE r

validate_name_snake(name) == snake_loop(name, 1)

RECURSIVE train_loop(_, _, _, _)
\* the for loop of validate_name_train over the lower-cased name, from
\* character i on, with the loop's upper_case flag and new_name buffer
train_loop(lowered, i, upper_case, new_name) ==
    IF i > Len(lowered) THEN Ok(new_name)
    ELSE LET c == Char(lowered, i) IN
         IF is_numeric(c) THEN Err(NumberNotAllowed)
         ELSE IF ~is_alphabetic(c) /\ c # "-" THEN Err(SpecialCharNotAllowed)
         ELSE IF upper_case
              THEN train_loop(lowered, i + 1, FALSE, new_name \o to_ascii_uppercase(c))
              ELSE train_loop(lowered, i + 1, c = "-", new_name \o c)

RECURSIVE train_loop_swapped(_, _, _, _)
\* Faulty variant: the character-class test comes before the digit test.
train_loop_swapped(lowered, i, upper_case, new_name) ==
    IF i > Len(lowered) THEN Ok(new_name)
    ELSE LET c == Char(lowered, i) IN
         IF ~is_alphabetic(c) /\ c # "-" THEN Err(SpecialCharNotAllowed)
         ELSE IF is_numeric(c) THEN Err(NumberNotAllowed)
         ELSE IF upper_case
              THEN train_loop_swapped(lowered, i + 1, FALSE,
                                      new_name \o to_ascii_uppercase(c))
              ELSE train_loop_swapped(lowered, i + 1, c = "-", new_name \o c)

validate_name_train_swapped(name) ==
    train_loop_swapped(to_lowercase(name), 1, TRUE, "")

RECURSIVE train_loop_drops_hyphen(_, _, _, _)
\* Faulty variant: a hyphen sets the flag and is not pushed.
train_loop_drops_hyphen(lowered, i, upper_case, new_name) ==
    IF i > Len(lowered) THEN Ok(new_name)
    ELSE LET c == Char(lowered, i) IN
         IF is_numeric(c) THEN Err(NumberNotAllowed)
         ELSE IF ~is_alphabetic(c) /\ c # "-" THEN Err(SpecialCharNotAllowed)
         ELSE IF upper_case
              THEN train_loop_drops_hyphen(lowered, i + 1, FALSE,
                                           new_name \o to_ascii_uppercase(c))
              ELSE IF c = "-"
              THEN train_loop_drops_hyphen(lowered, i + 1, TRUE, new_name)
              ELSE train_loop_drops_hyphen(lowered, i + 1, FALSE, new_name \o c)

validate_name_train_drops_hyphen(name) ==
    train_loop_drops_hyphen(to_lowercase(name), 1, TRUE, "")

validate_name_train(name) == train_loop(to_lowercase(name), 1, TRUE, "")

\* Faulty variant: a name needs at least one character.
check_name_rejects_empty(name, case) ==
    IF name = "" THEN Err(SpecialCharNotAllowed)
    ELSE IF case = SnakeCase THEN validate_name_snake(name)
    ELSE validate_name_train(name)

check_name(name, case) ==
    IF case = SnakeCase THEN validate_name_snake(name)
    ELSE validate_name_train(name)

\* ------------------------------------------------------------------- paths
RECURSIVE Split(_, _)
\* The components of path string s, with cur the component being read:
\* separators split, empty components (doubled or trailing "/") vanish.
Split(s, cur) ==
    IF s = "" THEN (IF cur = "" THEN <<>> ELSE <<cur>>)
    ELSE IF Char(s, 1) = "/"
         THEN (IF cur = "" THEN <<>> ELSE <<cur>>) \o Split(Rest(s), "")
         ELSE Split(Rest(s), cur \o Char(s, 1))

\* The process's working directory, as a filesystem path.
Cwd == <<"w">>

\* PathBuf::push(name) on base, then resolved by the OS: an absolute name
\* replaces base, a relative one is appended.
Push(base, name) ==
    IF name # "" /\ Char(name, 1) = "/" THEN Split(name, "")
    ELSE base \o Split(name, "")

\* A relative path string handed to the OS resolves against the working
\* directory.
Resolve(name) == Push(Cwd, name)

Parent(p) == SubSeq(p, 1, Len(p) - 1)

IsPrefix(p, q) == Len(p) <= Len(q) /\ SubSeq(q, 1, Len(p)) = p

\* ---------------------------------------------------------- directory plan
\* Faulty variant: the plan lacks root/files.
get_dirs_short(root_name, docs, package_name) ==
    LET dirs == << root_name,
                   root_name \o "/config",
                   root_name \o "/notebooks",
                   root_name \o "/test",
                   root_name \o "/src",
                   root_name \o "/src/" \o package_name >>
    IN IF docs THEN Append(dirs, root_name \o "/docs") ELSE dirs

\* Faulty variant: the package directory is listed before `src`.
get_dirs_child_first(root_name, docs, package_name) ==
    LET dirs == << root_name,
                   root_name \o "/config",
                   root_name \o "/files",
                   root_name \o "/notebooks",
                   root_name \o "/test",
                   root_name \o "/src/" \o package_name,
                   root_name \o "/src" >>
    IN IF docs THEN Append(dirs, root_name \o "/docs") ELSE dirs

get_dirs(root_name, docs, package_name) ==
    LET dirs == << root_name,
                   root_name \o "/config",
                   root_name \o "/files",
                   root_name \o "/notebooks",
                   root_name \o "/test",
                   root_name \o "/src",
                   root_name \o "/src/" \o package_name >>
    IN IF docs THEN Append(dirs, root_name \o "/docs") ELSE dirs

\* ----------------------------------------------------------- file manifest
\* The templates of files_content.rs, each abridged to a few of its lines.
SAMPLE_README == "# README's template for projects\nA short tagline"

SAMPLE_TEST == "import pytest\n\ndef sample_test():\n"

SAMPLE_INIT == "from .env import load_env\n\nload_env()\n"

SAMPLE_GITIGNORE == "# Python-generated files\n*.py[oc]\n"

SAMPLE_ENV == "import os\nimport yaml\n"

SAMPLE_DB == "import oracledb\nimport sqlalchemy\n"

SAMPLE_PYPROJECT == "[project]\nname = \"{}\"\nversion = \"0.1.0\"\n"

SAMPLE_MAIN == "import structlog\nlogger = structlog.get_logger()\n"

SAMPLE_CONFIG == "DB:\n    DB_USER: \"some_user\"\n"

StartsWith(s, pat) == Len(pat) <= Len(s) /\ SubSeq(s, 1, Len(pat)) = pat

\* pat occurs in s
Contains(s, pat) ==
    \E i \in 1..(Len(s) - Len(pat) + 1) : SubSeq(s, i, i + Len(pat) - 1) = pat

RECURSIVE replace(_, _, _)
\* str::replace: every non-overlapping occurrence of from, left to right
replace(s, from, to) ==
    IF s = "" THEN ""
    ELSE IF StartsWith(s, from)
         THEN to \o replace(SubSeq(s, Len(from) + 1, Len(s)), from, to)
         ELSE Char(s, 1) \o replace(Rest(s), from, to)

\* Faulty variant: the sample test is put in a `tests` directory.
get_files_tests_dir(root_name, package_name) ==
    << <<root_name \o "/README.md", SAMPLE_README>>,
       <<root_name \o "/pyproject.toml", replace(SAMPLE_PYPROJECT, "{}", package_name)>>,
       <<root_name \o "/.gitignore", SAMPLE_GITIGNORE>>,
       <<root_name \o "/src/" \o package_name \o "/__init__.py", SAMPLE_INIT>>,
       <<root_name \o "/src/" \o package_name \o "/env.py", SAMPLE_ENV>>,
       <<root_name \o "/src/" \o package_name \o "/db.py", SAMPLE_DB>>,
       <<root_name \o "/tests/sample_test.py", SAMPLE_TEST>>,
       <<root_name \o "/src/" \o package_name \o "/main.py", SAMPLE_MAIN>>,
       <<root_name \o "/config/DEV.yaml", SAMPLE_CONFIG>> >>

get_files(root_name, package_name) ==
    << <<root_name \o "/README.md", SAMPLE_README>>,
       <<root_name \o "/pyproject.toml", replace(SAMPLE_PYPROJECT, "{}", package_name)>>,
       <<root_name \o "/.gitignore", SAMPLE_GITIGNORE>>,
       <<root_name \o "/src/" \o package_name \o "/__init__.py", SAMPLE_INIT>>,
       <<root_name \o "/src/" \o package_name \o "/env.py", SAMPLE_ENV>>,
       <<root_name \o "/src/" \o package_name \o "/db.py", SAMPLE_DB>>,
       <<root_name \o "/test/sample_test.py", SAMPLE_TEST>>,
       <<root_name \o "/src/" \o package_name \o "/main.py", SAMPLE_MAIN>>,
       <<root_name \o "/config/DEV.yaml", SAMPLE_CONFIG>> >>

\* -------------------------------------------------------------- filesystem
\* A filesystem: the set of directory paths and the content of every file.
Exists(f, p) == p \in f.dirs \/ p \in DOMAIN f.files

IsDir(f, p) == p \in f.dirs

\* Entries strictly below p
Below(f, p) == {q \in f.dirs \cup DOMAIN f.files : IsPrefix(p, q) /\ q # p}

\* Faulty variant: an existing directory is accepted, as a recursive DirBuilder does.
create_dir_existing_ok(f, p, fault) ==
    IF fault \/ p \in DOMAIN f.files \/ ~IsDir(f, Parent(p))
    THEN [ok |-> FALSE, fs |-> f]
    ELSE [ok |-> TRUE, fs |-> [f EXCEPT !.dirs = @ \cup {p}]]

\* mkdir(2) behind DirBuilder::create (non-recursive)
create_dir(f, p, fault) ==
    IF fault \/ Exists(f, p) \/ ~IsDir(f, Parent(p))
    THEN [ok |-> FALSE, fs |-> f]
    ELSE [ok |-> TRUE, fs |-> [f EXCEPT !.dirs = @ \cup {p}]]

\* File::create: creates the file or truncates an existing one
file_create(f, p, fault) ==
    IF fault \/ IsDir(f, p) \/ ~IsDir(f, Parent(p))
    THEN [ok |-> FALSE, fs |-> f]
    ELSE [ok |-> TRUE,
          fs |-> [f EXCEPT !.files = [q \in DOMAIN @ \cup {p} |->
                                         IF q = p THEN "" ELSE @[q]]]]

\* Write::write_all: the whole content, or on a fault only the first
\* `partial` characters of it
write_all(f, p, content, fault, partial) ==
    IF fault
    THEN [ok |-> FALSE, fs |-> [f EXCEPT !.files[p] = SubSeq(content, 1, partial)]]
    ELSE [ok |-> TRUE, fs |-> [f EXCEPT !.files[p] = content]]

\* Faulty variant: the removal takes the directory with whatever it holds.
remove_dir_recursive(f, p, fault) ==
    IF fault \/ ~IsDir(f, p) \/ p = <<>>
    THEN [ok |-> FALSE, fs |-> f]
    ELSE [ok |-> TRUE,
          fs |-> [dirs |-> {q \in f.dirs : ~IsPrefix(p, q)},
                  files |-> [q \in {x \in DOMAIN f.files : ~IsPrefix(p, x)} |->
                                f.files[q]]]]

\* std::fs::remove_dir: rmdir(2), only an empty directory
remove_dir(f, p, fault) ==
    IF fault \/ ~IsDir(f, p) \/ Below(f, p) # {} \/ p = <<>>
    THEN [ok |-> FALSE, fs |-> f]
    ELSE [ok |-> TRUE, fs |-> [f EXCEPT !.dirs = @ \ {p}]]

\* std::fs::remove_dir_all: the directory and everything below it; on a
\* fault either nothing is removed (keep_dirs = FALSE) or the files are gone
\* and the directories remain (keep_dirs = TRUE)
remove_dir_all(f, p, fault, keep_dirs) ==
    IF ~IsDir(f, p) THEN [ok |-> FALSE, fs |-> f]
    ELSE IF fault
    THEN [ok |-> FALSE,
          fs |-> IF keep_dirs
                 THEN [f EXCEPT !.files = [q \in DOMAIN @ \ Below(f, p) |-> @[q]]]
                 ELSE f]
    ELSE [ok |-> TRUE,
          fs |-> [dirs |-> f.dirs \ (Below(f, p) \cup {p}),
                  files |-> [q \in DOMAIN f.files \ Below(f, p) |-> f.files[q]]]]

\* ------------------------------------------------------------------- state
VARIABLES
    fs,            \* the filesystem
    pc,            \* where build_skeleton stands: "idle" before a call, "done" after
    args,          \* the arguments of the call in progress
    project_name,  \* the validated (shadowing) project name
    pkg_name,      \* the validated (shadowing) package name
    dir,           \* the path held in `dir`
    idx,           \* position in the directory plan or the file manifest
    result,        \* what the call returned
    oplog,         \* the filesystem calls of this run, in order, with their outcome
    pre,           \* the filesystem as it was when the call began
    last,          \* result of the previous call
    stdout,        \* lines printed by println!
    stderr,        \* lines printed by eprintln!
    faults,        \* I/O faults injected so far
    runs,          \* calls started so far
    name,          \* check_name on its own: the raw name
    case,          \* check_name on its own: the policy
    checked,       \* check_name on its own: its result, NotChecked before the call
    fed            \* check_name on its own: name is the output of an earlier call

bvars == <<fs, pc, args, project_name, pkg_name, dir, idx, result, oplog, pre,
           last, stdout, stderr, faults, runs>>

vvars == <<name, case, checked, fed>>

vars == <<bvars, vvars>>

\* BuildError and the unit success value
IOError == "IOError"

NameError == "NameError"

Success == "Ok"

NoFiles == [q \in {} |-> ""]

NoArgs == [project_name |-> "", pkg_name |-> "", verbose |-> FALSE,
           include_doc_dir |-> FALSE]

\* The raw names and the filesystems a call may meet.
ProjectNames == {"my-project", "", "p1"}

PkgNames == {"my_pkg", "", "my-pkg"}

InitialFilesystems ==
    LET root == Cwd \o <<"My-Project">> IN
    { [dirs |-> {<<>>, Cwd}, files |-> NoFiles],
      [dirs |-> {<<>>, Cwd}, files |-> [q \in {Cwd \o <<"notes.txt">>} |-> "n"]],
      [dirs |-> {<<>>, Cwd}, files |-> [q \in {root} |-> "x"]],
      [dirs |-> {<<>>, Cwd, root}, files |-> NoFiles],
      [dirs |-> {<<>>, Cwd, root}, files |-> [q \in {root \o <<"config">>} |-> "x"]],
      [dirs |-> {<<>>, Cwd, root, root \o <<"src">>},
       files |-> [q \in {root \o <<"src", "my_pkg">>} |-> "x"]] }

\* A fault may hit a call that would otherwise succeed, while the budget lasts.
Faults == IF faults < MaxFaults THEN BOOLEAN ELSE {FALSE}

Hits(fault, succeeds) == fault => succeeds

Count(b) == IF b THEN 1 ELSE 0

Log(op, p, ok, fault) ==
    Append(oplog, [op |-> op, path |-> p, ok |-> ok, fault |-> fault])

NotChecked == [ok |-> FALSE, val |-> "none"]

InitBuild ==
    /\ fs \in InitialFilesystems
    /\ pc = "idle"
    /\ args = NoArgs
    /\ project_name = ""
    /\ pkg_name = ""
    /\ dir = <<>>
    /\ idx = 0
    /\ result = "none"
    /\ oplog = <<>>
    /\ pre = fs
    /\ last = "none"
    /\ stdout = 0
    /\ stderr = 0
    /\ faults = 0
    /\ runs = 0

Init ==
    /\ InitBuild
    /\ name = ""
    /\ case = SnakeCase
    /\ checked = NotChecked
    /\ fed = FALSE

\* ----------------------------------------------------------------- actions
\* A caller (main) invokes build_skeleton: the first time with any arguments,
\* after that by repeating the same command.
Call ==
    /\ pc \in {"idle", "done"}
    /\ runs < MaxRuns
    /\ IF runs = 0
       THEN \E p \in ProjectNames, k \in PkgNames, v \in BOOLEAN, d \in BOOLEAN :
               args' = [project_name |-> p, pkg_name |-> k, verbose |-> v,
                        include_doc_dir |-> d]
       ELSE args' = args
    /\ pc' = "check_project"
    /\ project_name' = ""
    /\ pkg_name' = ""
    /\ dir' = <<>>
    /\ idx' = 0
    /\ result' = "none"
    /\ oplog' = <<>>
    /\ pre' = fs
    /\ last' = result
    /\ stdout' = 0
    /\ stderr' = 0
    /\ runs' = runs + 1
    /\ UNCHANGED <<fs, faults, vvars>>

\* Faulty variant: the Err arm does not return.
after_check_falls_through(ok, next) == next

\* lib.rs 78-84 and 89-95: the match on check_name's result goes on to the
\* next step on Ok and returns on Err
after_check(ok, next) == IF ok THEN next ELSE "done"

\* lib.rs 74-84: validate the project name as Train-Case
CheckProjectName ==
    /\ pc = "check_project"
    /\ stdout' = stdout + Count(args.verbose)
    /\ LET r == check_name(args.project_name, TrainCase) IN
       /\ project_name' = IF r.ok THEN r.val ELSE project_name
       /\ stderr' = stderr + Count(~r.ok)
       /\ result' = IF r.ok THEN result ELSE NameError
       /\ pc' = after_check(r.ok, "check_pkg")
    /\ UNCHANGED <<fs, args, pkg_name, dir, idx, oplog, pre, last, faults, runs, vvars>>

\* lib.rs 85-95: validate the package name as snake_case
CheckPkgName ==
    /\ pc = "check_pkg"
    /\ stdout' = stdout + Count(args.verbose)
    /\ LET r == check_name(args.pkg_name, SnakeCase) IN
       /\ pkg_name' = IF r.ok THEN r.val ELSE pkg_name
       /\ stderr' = stderr + Count(~r.ok)
       /\ result' = IF r.ok THEN result ELSE NameError
       /\ pc' = after_check(r.ok, "current_dir")
    /\ UNCHANGED <<fs, args, project_name, dir, idx, oplog, pre, last, faults, runs,
                   vvars>>

\* Faulty variant: a failed lookup is reported as a name error.
current_dir_error_as_name == NameError

\* lib.rs 101: the error returned when current_dir() fails
current_dir_error == IOError

\* lib.rs 96-103: current_dir(), which fails on a fault or when the working
\* directory no longer exists
\* Faulty variant: the directory phase is skipped.
CurrentDir_SkipsDirs ==
    /\ pc = "current_dir"
    /\ \E fault \in Faults :
          /\ Hits(fault, IsDir(fs, Cwd))
          /\ faults' = faults + Count(fault)
          /\ LET ok == ~fault /\ IsDir(fs, Cwd) IN
             /\ oplog' = Log("current_dir", Cwd, ok, fault)
             /\ IF ok
                THEN /\ dir' = Cwd
                     /\ idx' = 1
                     /\ pc' = "make_files"
                     /\ UNCHANGED <<result, stderr>>
                ELSE /\ stderr' = stderr + 1
                     /\ result' = current_dir_error
                     /\ pc' = "done"
                     /\ UNCHANGED <<dir, idx>>
    /\ UNCHANGED <<fs, args, project_name, pkg_name, pre, last, stdout, runs, vvars>>

\* Faulty variant: a failed lookup runs the directory fallback.
CurrentDir_RollsBack ==
    /\ pc = "current_dir"
    /\ \E fault \in Faults :
          /\ Hits(fault, IsDir(fs, Cwd))
          /\ faults' = faults + Count(fault)
          /\ LET ok == ~fault /\ IsDir(fs, Cwd) IN
             /\ oplog' = Log("current_dir", Cwd, ok, fault)
             /\ IF ok
                THEN /\ dir' = Cwd
                     /\ idx' = 1
                     /\ pc' = "make_dirs"
                     /\ UNCHANGED <<result, stderr>>
                ELSE /\ stderr' = stderr + 1
                     /\ dir' = Cwd
                     /\ pc' = "dirs_fallback"
                     /\ UNCHANGED <<result, idx>>
    /\ UNCHANGED <<fs, args, project_name, pkg_name, pre, last, stdout, runs, vvars>>

CurrentDir ==
    /\ pc = "current_dir"
    /\ \E fault \in Faults :
          /\ Hits(fault, IsDir(fs, Cwd))
          /\ faults' = faults + Count(fault)
          /\ LET ok == ~fault /\ IsDir(fs, Cwd) IN
             /\ oplog' = Log("current_dir", Cwd, ok, fault)
             /\ IF ok
                THEN /\ dir' = Cwd
                     /\ idx' = 1
                     /\ pc' = "make_dirs"
                     /\ UNCHANGED <<result, stderr>>
                ELSE /\ stderr' = stderr + 1
                     /\ result' = current_dir_error
                     /\ pc' = "done"
                     /\ UNCHANGED <<dir, idx>>
    /\ UNCHANGED <<fs, args, project_name, pkg_name, pre, last, stdout, runs, vvars>>

\* dir_builder.rs 80-94: one iteration of the loop of make_dirs, and its
\* return to build_skeleton when the loop ends or a create fails
\* Faulty variant: a failed create is skipped and the loop goes on; the error
\* is returned after the last entry.
MakeDir_KeepsGoing ==
    /\ pc = "make_dirs"
    /\ \E fault \in Faults :
          /\ faults' = faults + Count(fault)
          /\ LET dirs_names == get_dirs(project_name, args.include_doc_dir, pkg_name)
                 parent_copy == Push(dir, dirs_names[idx])
                 r == create_dir(fs, parent_copy, fault)
             IN /\ Hits(fault, create_dir(fs, parent_copy, FALSE).ok)
                /\ fs' = r.fs
                /\ oplog' = Log("create_dir", parent_copy, r.ok, fault)
                /\ IF idx < Len(dirs_names) THEN pc' = pc /\ idx' = idx + 1
                   ELSE IF ~r.ok THEN pc' = "dirs_fallback" /\ idx' = idx
                   ELSE pc' = "make_files" /\ idx' = 1
    /\ stdout' = stdout + Count(args.verbose)
    /\ UNCHANGED <<args, project_name, pkg_name, dir, result, pre, last, stderr, runs,
                   vvars>>

MakeDir ==
    /\ pc = "make_dirs"
    /\ \E fault \in Faults :
          /\ faults' = faults + Count(fault)
          /\ LET dirs_names == get_dirs(project_name, args.include_doc_dir, pkg_name)
                 parent_copy == Push(dir, dirs_names[idx])
                 r == create_dir(fs, parent_copy, fault)
             IN /\ Hits(fault, create_dir(fs, parent_copy, FALSE).ok)
                /\ fs' = r.fs
                /\ oplog' = Log("create_dir", parent_copy, r.ok, fault)
                /\ IF ~r.ok THEN pc' = "dirs_fallback" /\ idx' = idx
                   ELSE IF idx < Len(dirs_names) THEN pc' = pc /\ idx' = idx + 1
                   ELSE pc' = "make_files" /\ idx' = 1
    /\ stdout' = stdout + Count(args.verbose)
    /\ UNCHANGED <<args, project_name, pkg_name, dir, result, pre, last, stderr, runs,
                   vvars>>

\* Faulty variant: the outcome of the removal is what the call returns.
fallback_return_removal(removed) == IF removed THEN Success ELSE IOError

\* lib.rs 113-114 and 123-124: `let _ = remove...; return Err(IOError)`:
\* the outcome of the removal is dropped
fallback_return(removed) == IOError

\* lib.rs 107-115 (recursive = FALSE) and 117-125 (recursive = TRUE): a phase
\* failed; push the project name on `dir`, remove that path, return IOError
Fallback(at, recursive) ==
    /\ pc = at
    /\ \E fault \in Faults, keep_dirs \in BOOLEAN :
          /\ keep_dirs => (fault /\ recursive)
          /\ faults' = faults + Count(fault)
          /\ LET target == Push(dir, project_name)
                 r == IF recursive THEN remove_dir_all(fs, target, fault, keep_dirs)
                      ELSE remove_dir(fs, target, fault)
             IN /\ Hits(fault, IF recursive
                                THEN remove_dir_all(fs, target, FALSE, FALSE).ok
                                ELSE remove_dir(fs, target, FALSE).ok)
                /\ dir' = target
                /\ fs' = r.fs
                /\ oplog' = Log(IF recursive THEN "remove_dir_all" ELSE "remove_dir",
                                target, r.ok, fault)
                /\ result' = fallback_return(r.ok)
    /\ stderr' = stderr + 1
    /\ stdout' = stdout + Count(args.verbose)
    /\ pc' = "done"
    /\ UNCHANGED <<args, project_name, pkg_name, idx, pre, last, runs, vvars>>

\* Faulty variant: the directory phase falls back with the recursive removal.
DirsFallback_Recursive == Fallback("dirs_fallback", TRUE)

\* lib.rs 105-115: make_dirs failed
DirsFallback == Fallback("dirs_fallback", FALSE)

\* files_builder.rs 100-103: File::create of the manifest entry at idx
CreateFile ==
    /\ pc = "make_files"
    /\ \E fault \in Faults :
          /\ faults' = faults + Count(fault)
          /\ LET files == get_files(project_name, pkg_name)
                 file_name == Resolve(files[idx][1])
                 r == file_create(fs, file_name, fault)
             IN /\ Hits(fault, file_create(fs, file_name, FALSE).ok)
                /\ fs' = r.fs
                /\ oplog' = Log("file_create", file_name, r.ok, fault)
                /\ pc' = IF r.ok THEN "write_file" ELSE "files_fallback"
    /\ UNCHANGED <<args, project_name, pkg_name, dir, idx, result, pre, last, stdout,
                   stderr, runs, vvars>>

\* files_builder.rs 104-109: write_all of the entry's content, then the next
\* entry or the return of make_files (and of build_skeleton, lib.rs 127)
\* Faulty variant: a failed write is skipped and the next entry is processed.
WriteFile_KeepsGoing ==
    /\ pc = "write_file"
    /\ \E fault \in Faults, partial \in {0, 1} :
          /\ fault \/ partial = 0
          /\ faults' = faults + Count(fault)
          /\ LET files == get_files(project_name, pkg_name)
                 file_name == Resolve(files[idx][1])
                 r == write_all(fs, file_name, files[idx][2], fault, partial)
             IN /\ fs' = r.fs
                /\ oplog' = Log("write_all", file_name, r.ok, fault)
                /\ stdout' = stdout + Count(args.verbose /\ r.ok)
                /\ IF idx < Len(files)
                   THEN pc' = "make_files" /\ idx' = idx + 1 /\ UNCHANGED result
                   ELSE IF ~r.ok
                   THEN pc' = "files_fallback" /\ UNCHANGED <<idx, result>>
                   ELSE pc' = "done" /\ idx' = idx /\ result' = Success
    /\ UNCHANGED <<args, project_name, pkg_name, dir, pre, last, stderr, runs, vvars>>

WriteFile ==
    /\ pc = "write_file"
    /\ \E fault \in Faults, partial \in {0, 1} :
          /\ fault \/ partial = 0
          /\ faults' = faults + Count(fault)
          /\ LET files == get_files(project_name, pkg_name)
                 file_name == Resolve(files[idx][1])
                 r == write_all(fs, file_name, files[idx][2], fault, partial)
             IN /\ fs' = r.fs
                /\ oplog' = Log("write_all", file_name, r.ok, fault)
                /\ IF ~r.ok
                   THEN /\ pc' = "files_fallback"
                        /\ UNCHANGED <<idx, result, stdout>>
                   ELSE /\ stdout' = stdout + Count(args.verbose)
                        /\ IF idx < Len(files)
                           THEN pc' = "make_files" /\ idx' = idx + 1 /\ UNCHANGED result
                           ELSE pc' = "done" /\ idx' = idx /\ result' = Success
    /\ UNCHANGED <<args, project_name, pkg_name, dir, pre, last, stderr, runs, vvars>>

\* Faulty variant: the file phase falls back with the non-recursive removal.
FilesFallback_NonRecursive == Fallback("files_fallback", FALSE)

\* lib.rs 117-125: make_files failed
FilesFallback == Fallback("files_fallback", TRUE)

Next ==
    \/ Call
    \/ CheckProjectName
    \/ CheckPkgName
    \/ CurrentDir
    \/ MakeDir
    \/ DirsFallback
    \/ CreateFile
    \/ WriteFile
    \/ FilesFallback

Spec == Init /\ [][Next]_vars

\* ----------------------------------------------- check_name on its own
\* The characters raw names are drawn from: a lower-case and an upper-case
\* letter, both delimiters, a digit, a space and a letter outside ASCII.
Alphabet == {"a", "B", "-", "_", "7", " ", "é"}

RECURSIVE StringsOfLen(_)
StringsOfLen(n) ==
    IF n = 0 THEN {""}
    ELSE {s \o c : s \in StringsOfLen(n - 1), c \in Alphabet}

RawNames == UNION {StringsOfLen(n) : n \in 0..MaxLen}

InitValidate ==
    /\ InitBuild
    /\ fs = [dirs |-> {<<>>, Cwd}, files |-> NoFiles]
    /\ name \in RawNames
    /\ case \in {SnakeCase, TrainCase}
    /\ checked = NotChecked
    /\ fed = FALSE

\* validation.rs 211-216: a caller applies check_name(name, case)
CheckName ==
    /\ checked = NotChecked
    /\ checked' = check_name(name, case)
    /\ UNCHANGED <<name, case, fed, bvars>>

\* validation.rs 263-276 (test_valid_name_train checks a name that is already
\* normalized): the caller hands the normalized name back to check_name
Revalidate ==
    /\ checked.ok
    /\ ~fed
    /\ name' = checked.val
    /\ checked' = NotChecked
    /\ fed' = TRUE
    /\ UNCHANGED <<case, bvars>>

NextValidate == CheckName \/ Revalidate

SpecValidate == InitValidate /\ [][NextValidate]_vars

\* ------------------------------------------------- vocabulary of the claims
Done == pc = "done"

\* Both raw names of the call pass check_name.
NamesValid ==
    /\ check_name(args.project_name, TrainCase).ok
    /\ check_name(args.pkg_name, SnakeCase).ok

\* The root of this attempt: the working directory joined with the validated
\* project name.
RootPath == IF project_name = "" THEN Cwd ELSE Cwd \o <<project_name>>

\* Positions of the log holding a call of kind op.
Ops(op) == {i \in DOMAIN oplog : oplog[i].op = op}

Failed(op) == \E i \in Ops(op) : ~oplog[i].ok

OkCount(op) == Cardinality({i \in Ops(op) : oplog[i].ok})

DirPhaseFailed == Failed("create_dir")

FilePhaseFailed == Failed("file_create") \/ Failed("write_all")

LastOp == oplog[Len(oplog)]

\* Everything at or below path p.
Tree(f, p) == {q \in f.dirs \cup DOMAIN f.files : IsPrefix(p, q)}

\* The planned directories, written out path by path.
ExpectedDirs ==
    {RootPath, RootPath \o <<"config">>, RootPath \o <<"files">>,
     RootPath \o <<"notebooks">>, RootPath \o <<"test">>, RootPath \o <<"src">>,
     RootPath \o <<"src", pkg_name>>}
    \cup (IF args.include_doc_dir THEN {RootPath \o <<"docs">>} ELSE {})

\* The manifest, written out path by path with the content each file holds.
ExpectedFiles ==
    LET pkg == RootPath \o <<"src", pkg_name>> IN
    (RootPath \o <<"README.md">> :> SAMPLE_README)
    @@ (RootPath \o <<"pyproject.toml">> :>
            "[project]\nname = \"" \o pkg_name \o "\"\nversion = \"0.1.0\"\n")
    @@ (RootPath \o <<".gitignore">> :> SAMPLE_GITIGNORE)
    @@ (pkg \o <<"__init__.py">> :> SAMPLE_INIT)
    @@ (pkg \o <<"env.py">> :> SAMPLE_ENV)
    @@ (pkg \o <<"db.py">> :> SAMPLE_DB)
    @@ (pkg \o <<"main.py">> :> SAMPLE_MAIN)
    @@ (RootPath \o <<"test", "sample_test.py">> :> SAMPLE_TEST)
    @@ (RootPath \o <<"config", "DEV.yaml">> :> SAMPLE_CONFIG)

\* ------------------------------------------------------------------ claims
\* C1 (as stated): with two valid names, when the root was created by this
\* build and a later directory creation failed, and no fault hits the
\* removal call, the filesystem on return equals its pre-build state.
C1_CleanAfterDirFailure ==
    (/\ Done
     /\ NamesValid
     /\ \E i \in Ops("create_dir") : oplog[i].ok /\ oplog[i].path = RootPath
     /\ DirPhaseFailed
     /\ \A i \in Ops("remove_dir") : ~oplog[i].fault)
    => fs = pre

\* A plain file lies, before the call, at a path of the directory plan.
PlainFileAtRoot == RootPath \in DOMAIN pre.files

PlainFileAtChild == \E p \in ExpectedDirs \ {RootPath} : p \in DOMAIN pre.files

\* C2 (as stated, on runs no fault hits): a plain file at the root path or at
\* a planned child path makes build_skeleton return IOError and leaves no
\* directory at the root path.
C2_NoRootAfterCollision ==
    (/\ Done
     /\ NamesValid
     /\ PlainFileAtRoot \/ PlainFileAtChild
     /\ \A i \in DOMAIN oplog : ~oplog[i].fault)
    => (result = IOError /\ RootPath \notin fs.dirs)

\* C2 (amended): a plain file at a planned path makes build_skeleton return
\* IOError with the filesystem unchanged; no directory exists at the root path
\* when the file is at the root path itself, and the pre-existing root
\* directory is still there when the file is at a planned child path.
C2_CollisionFails ==
    (Done /\ NamesValid /\ (PlainFileAtRoot \/ PlainFileAtChild))
    => /\ result = IOError
       /\ fs = pre
       /\ PlainFileAtRoot => RootPath \notin fs.dirs
       /\ PlainFileAtChild => RootPath \in fs.dirs

C2_Witness ==
    /\ Done
    /\ NamesValid
    /\ PlainFileAtChild
    /\ Failed("create_dir")
    /\ Failed("remove_dir")
    /\ result = IOError

\* C3: when every planned directory was created and a file creation or write
\* then fails, build_skeleton issues one recursive removal of the root and
\* returns IOError; when that removal succeeds nothing is left at or below
\* the root.
C3_FileFailureRemovesRoot ==
    (/\ Done
     /\ OkCount("create_dir") = 7 + Count(args.include_doc_dir)
     /\ FilePhaseFailed)
    => /\ result = IOError
       /\ LastOp.op = "remove_dir_all"
       /\ LastOp.path = RootPath
       /\ Cardinality(Ops("remove_dir_all")) = 1
       /\ LastOp.ok => Tree(fs, RootPath) = {}

C3_Witness ==
    /\ Done
    /\ FilePhaseFailed
    /\ OkCount("write_all") >= 2
    /\ LastOp.op = "remove_dir_all"
    /\ LastOp.ok
    /\ RootPath \notin fs.dirs

\* C4: when a name fails validation, build_skeleton returns NameError and
\* performs no filesystem call at all: the filesystem is unchanged.
C4_NameErrorNoEffect ==
    (pc # "idle" /\ ~NamesValid)
    => /\ oplog = <<>>
       /\ fs = pre
       /\ Done => result = NameError

C4_Witness ==
    /\ Done
    /\ check_name(args.project_name, TrainCase).ok
    /\ ~check_name(args.pkg_name, SnakeCase).ok
    /\ result = NameError
    /\ oplog = <<>>

\* C5: on Ok with no root beforehand, the directories created are exactly the
\* planned list (7, or 8 with docs), the files created are exactly the 9
\* manifest entries, each with its full non-empty content, and pyproject.toml
\* contains the normalized package name; `my-project`, `my_pkg` give root
\* `My-Project` and `my_pkg` inside pyproject.toml.
C5_SuccessLayout ==
    (Done /\ result = Success /\ ~Exists(pre, RootPath))
    => /\ fs.dirs \ pre.dirs = ExpectedDirs
       /\ Cardinality(fs.dirs \ pre.dirs) = 7 + Count(args.include_doc_dir)
       /\ pre.dirs \subseteq fs.dirs
       /\ DOMAIN fs.files \ DOMAIN pre.files = DOMAIN ExpectedFiles
       /\ Cardinality(DOMAIN fs.files \ DOMAIN pre.files) = 9
       /\ \A q \in DOMAIN ExpectedFiles :
             fs.files[q] = ExpectedFiles[q] /\ Len(fs.files[q]) > 0
       /\ \A q \in DOMAIN pre.files : fs.files[q] = pre.files[q]
       /\ Contains(fs.files[RootPath \o <<"pyproject.toml">>], pkg_name)
       /\ (args.project_name = "my-project" /\ args.pkg_name = "my_pkg")
            => /\ RootPath = <<"w", "My-Project">>
               /\ Contains(fs.files[<<"w", "My-Project", "pyproject.toml">>], "my_pkg")

C5_Witness ==
    /\ Done
    /\ result = Success
    /\ args.project_name = "my-project"
    /\ args.pkg_name = "my_pkg"
    /\ args.include_doc_dir
    /\ <<"w", "My-Project", "docs">> \in fs.dirs
    /\ <<"w", "My-Project", "src", "my_pkg", "main.py">> \in DOMAIN fs.files

\* C6: the result classifies the run: NameError iff a name fails validation;
\* IOError iff both names are valid and the current-directory lookup, a
\* directory creation or a file creation/write failed; Ok iff every planned
\* directory and every manifest file was created and written.
C6_ResultClassifies ==
    Done
    => /\ result \in {NameError, IOError, Success}
       /\ result = NameError <=> ~NamesValid
       /\ result = IOError <=>
             /\ NamesValid
             /\ \/ Failed("current_dir")
                \/ Failed("create_dir")
                \/ Failed("file_create")
                \/ Failed("write_all")
       /\ result = Success <=>
             /\ OkCount("create_dir") = 7 + Count(args.include_doc_dir)
             /\ OkCount("file_create") = 9
             /\ OkCount("write_all") = 9

C6_Witness ==
    /\ Done
    /\ result = IOError
    /\ Failed("current_dir")
    /\ NamesValid

\* C7: when the directory phase or the file phase fails, build_skeleton
\* returns IOError whether the removal of the root then succeeds or fails.
C7_CleanupNeverMasks ==
    (Done /\ (DirPhaseFailed \/ FilePhaseFailed))
    => /\ result = IOError
       /\ LastOp.op \in {"remove_dir", "remove_dir_all"}

C7_Witness ==
    /\ Done
    /\ FilePhaseFailed
    /\ LastOp.op = "remove_dir_all"
    /\ ~LastOp.ok
    /\ result = IOError

\* A removal was attempted.
Removals == Ops("remove_dir") \cup Ops("remove_dir_all")

\* C8: exactly one removal is attempted when the directory phase fails (a
\* non-recursive one of the root) and exactly one when the file phase fails
\* (a recursive one of the root); none on success, on a name failure or on a
\* current-directory failure; a failed call is never issued again: the only
\* call that follows a failed one is that removal.
C8_OneCleanupPerFailure ==
    /\ Cardinality(Removals) <= 1
    /\ \A i \in DOMAIN oplog :
          ~oplog[i].ok =>
             \/ i = Len(oplog)
             \/ /\ i = Len(oplog) - 1
                /\ i \notin Removals
                /\ Len(oplog) \in Removals
    /\ Done =>
          /\ DirPhaseFailed =>
                /\ Cardinality(Ops("remove_dir")) = 1
                /\ Ops("remove_dir_all") = {}
                /\ LastOp.op = "remove_dir"
                /\ LastOp.path = RootPath
          /\ FilePhaseFailed =>
                /\ Cardinality(Ops("remove_dir_all")) = 1
                /\ Ops("remove_dir") = {}
                /\ LastOp.op = "remove_dir_all"
                /\ LastOp.path = RootPath
          /\ (~DirPhaseFailed /\ ~FilePhaseFailed) => Removals = {}

C8_Witness ==
    /\ Done
    /\ DirPhaseFailed
    /\ OkCount("create_dir") >= 2
    /\ Cardinality(Ops("remove_dir")) = 1
    /\ Ops("remove_dir_all") = {}

\* C9: repeating the command after a successful build fails with IOError: the
\* second run creates no directory, creates or truncates no file, and leaves
\* the tree built before in place.
C9_RerunFails ==
    (Done /\ last = Success)
    => /\ result = IOError
       /\ fs = pre
       /\ \A i \in DOMAIN oplog :
             oplog[i].op \in {"create_dir", "file_create", "write_all"} => ~oplog[i].ok

C9_Witness ==
    /\ Done
    /\ last = Success
    /\ result = IOError
    /\ Failed("create_dir")
    /\ RootPath \o <<"config", "DEV.yaml">> \in DOMAIN fs.files

\* ------------------------------------------------------ claims, check_name
CheckedName == checked # NotChecked

IsDigit(c) == IndexOf(c, DecimalDigits) > 0

HasDigit(s) == \E i \in 1..Len(s) : IsDigit(Char(s, i))

\* Character c is neither a digit, nor an ASCII letter, nor the delimiter of
\* policy k.
Disallowed(c, k) ==
    /\ ~IsDigit(c)
    /\ IndexOf(c, LowerLetters) = 0
    /\ IndexOf(c, UpperLetters) = 0
    /\ c # (IF k = SnakeCase THEN "_" ELSE "-")

AsciiLetter(c) == IndexOf(c, LowerLetters) > 0 \/ IndexOf(c, UpperLetters) > 0

\* Every character of s is an ASCII letter or the delimiter.
OnlyLettersAnd(s, delim) ==
    \A i \in 1..Len(s) : AsciiLetter(Char(s, i)) \/ Char(s, i) = delim

\* The lower-case and the upper-case form of an ASCII letter; any other
\* character is its own.
AsciiLower(c) ==
    IF IndexOf(c, UpperLetters) > 0 THEN Char(LowerLetters, IndexOf(c, UpperLetters))
    ELSE c

AsciiUpper(c) ==
    IF IndexOf(c, LowerLetters) > 0 THEN Char(UpperLetters, IndexOf(c, LowerLetters))
    ELSE c

\* C11: under SnakeCase a string of ASCII letters and `_` is accepted and
\* returned lower-cased, character by character; a digit-free string that
\* contains a `-` or a space is rejected with SpecialCharNotAllowed.
C11_SnakeAcceptsAndLowers ==
    (CheckedName /\ case = SnakeCase)
    => /\ OnlyLettersAnd(name, "_") =>
             /\ checked.ok
             /\ Len(checked.val) = Len(name)
             /\ \A i \in 1..Len(name) :
                   Char(checked.val, i) = AsciiLower(Char(name, i))
       /\ (~HasDigit(name) /\ \E i \in 1..Len(name) : Char(name, i) \in {"-", " "})
             => checked = Err(SpecialCharNotAllowed)

C11_Witness ==
    /\ CheckedName
    /\ ~fed
    /\ case = SnakeCase
    /\ Len(name) = 3
    /\ Char(name, 1) = "B"
    /\ Char(name, 2) = "_"
    /\ checked = Ok("b_a")

\* C12 (as stated): under TrainCase a string of ASCII letters and `-` is
\* accepted, and in the output the first character and the first character
\* after every `-` are upper-cased and every other letter is lower-cased,
\* also after a leading `-` and after the second of two `-`.
C12_TrainCapitalizesEverySegment ==
    (CheckedName /\ case = TrainCase /\ OnlyLettersAnd(name, "-"))
    => /\ checked.ok
       /\ Len(checked.val) = Len(name)
       /\ \A i \in 1..Len(name) :
             Char(checked.val, i) =
                IF i = 1 \/ Char(name, i - 1) = "-"
                THEN AsciiUpper(AsciiLower(Char(name, i)))
                ELSE AsciiLower(Char(name, i))

\* C13: under TrainCase a string of ASCII letters and `-` is accepted, and its
\* normalized form, validated again, is accepted and returned unchanged.
C13_TrainIdempotent ==
    (CheckedName /\ case = TrainCase /\ OnlyLettersAnd(name, "-"))
    => /\ checked.ok
       /\ fed => checked = Ok(name)

C13_Witness ==
    /\ CheckedName
    /\ fed
    /\ case = TrainCase
    /\ name = "A-B"
    /\ checked = Ok("A-B")

\* C14 (as stated): a digit-free string that contains a character other than
\* an ASCII letter and the policy's delimiter, a non-ASCII letter included, is
\* rejected with SpecialCharNotAllowed.
C14_OnlyAsciiAccepted ==
    (/\ CheckedName
     /\ ~HasDigit(name)
     /\ \E i \in 1..Len(name) : Disallowed(Char(name, i), case))
    => checked = Err(SpecialCharNotAllowed)

\* The first position of s that holds a digit or a disallowed character
\* under policy k; 0 when there is none.
RECURSIVE FirstViolation(_, _, _)
FirstViolation(s, k, i) ==
    IF i > Len(s) THEN 0
    ELSE IF IsDigit(Char(s, i)) \/ Disallowed(Char(s, i), k) THEN i
    ELSE FirstViolation(s, k, i + 1)

\* C15 (as stated): for a string with both a digit and a disallowed non-digit
\* character, the leftmost of them decides the error: NumberNotAllowed when it
\* is a digit, SpecialCharNotAllowed when it is the disallowed character.
C15_FirstViolationDecides ==
    (/\ CheckedName
     /\ HasDigit(name)
     /\ \E i \in 1..Len(name) : Disallowed(Char(name, i), case))
    => checked = Err(IF IsDigit(Char(name, FirstViolation(name, case, 1)))
                     THEN NumberNotAllowed
                     ELSE SpecialCharNotAllowed)

\* The position of the last `/` of s; 0 when there is none.
RECURSIVE LastSlash(_, _)
LastSlash(s, i) ==
    IF i = 0 THEN 0 ELSE IF Char(s, i) = "/" THEN i ELSE LastSlash(s, i - 1)

\* The entry without its last `/component`.
ParentEntry(s) == SubSeq(s, 1, LastSlash(s, Len(s)) - 1)

\* C16: the directory plan is the ordered list root, root/config, root/files,
\* root/notebooks, root/test, root/src, root/src/package, with root/docs as
\* the last entry iff docs is set; every entry but the root comes after its
\* parent entry.
C16_PlanOrder ==
    pc = "make_dirs"
    => LET plan == get_dirs(project_name, args.include_doc_dir, pkg_name)
           r == project_name
       IN /\ Len(plan) = 7 + Count(args.include_doc_dir)
          /\ SubSeq(plan, 1, 7) =
                <<r, r \o "/config", r \o "/files", r \o "/notebooks", r \o "/test",
                  r \o "/src", r \o "/src/" \o pkg_name>>
          /\ args.include_doc_dir <=> plan[Len(plan)] = r \o "/docs"
          /\ \A i \in 1..Len(plan) : plan[i] = r \o "/docs" => i = 8
          /\ \A i \in 2..Len(plan) :
                \E j \in 1..(i - 1) : plan[j] = ParentEntry(plan[i])
          /\ (project_name = "My-Project" /\ pkg_name = "my_pkg")
                => SubSeq(plan, 1, 7) =
                      <<"My-Project", "My-Project/config", "My-Project/files",
                        "My-Project/notebooks", "My-Project/test", "My-Project/src",
                        "My-Project/src/my_pkg">>

C16_Witness ==
    /\ pc = "make_dirs"
    /\ idx = 8
    /\ args.include_doc_dir
    /\ project_name = "My-Project"
    /\ pkg_name = "my_pkg"
    /\ <<"w", "My-Project", "src", "my_pkg">> \in fs.dirs

\* C17: the empty string is accepted under both policies and normalizes to
\* the empty string.
C17_EmptyNameValid == (CheckedName /\ name = "") => checked = Ok("")

C17_Witness ==
    /\ CheckedName
    /\ ~fed
    /\ name = ""
    /\ case = TrainCase
    /\ checked = Ok("")

\* The calls of one kind of this run, in the order they were made.
Calls(op) == SelectSeq(oplog, LAMBDA e : e.op = op)

\* C19: the creates of make_dirs are at the planned paths in plan order, one
\* per entry; after a failed create no further create is made, and when
\* make_dirs returns the error nothing was removed: the directories created
\* before the failing entry are present.
C19_CreatesInPlanOrder ==
    LET plan == get_dirs(project_name, args.include_doc_dir, pkg_name)
        creates == Calls("create_dir")
    IN /\ Len(creates) <= Len(plan)
       /\ \A k \in 1..Len(creates) : creates[k].path = Push(Cwd, plan[k])
       /\ \A k \in 1..(Len(creates) - 1) : creates[k].ok
       /\ pc = "make_dirs" => Len(creates) = idx - 1
       /\ pc \in {"make_files", "write_file"} =>
             /\ Len(creates) = Len(plan)
             /\ \A k \in 1..Len(creates) : creates[k].ok
       /\ pc = "dirs_fallback" =>
             /\ LastOp.op = "create_dir"
             /\ ~LastOp.ok
             /\ Removals = {}
             /\ fs.dirs = pre.dirs \cup
                   {creates[k].path : k \in 1..(Len(creates) - 1)}
             /\ fs.files = pre.files

C19_Witness ==
    /\ pc = "dirs_fallback"
    /\ Len(Calls("create_dir")) = 4
    /\ <<"w", "My-Project", "files">> \in fs.dirs
    /\ <<"w", "My-Project", "notebooks">> \notin fs.dirs

\* The paths of the manifest, in the order make_files processes them.
ManifestOrder ==
    LET pkg == RootPath \o <<"src", pkg_name>> IN
    << RootPath \o <<"README.md">>,
       RootPath \o <<"pyproject.toml">>,
       RootPath \o <<".gitignore">>,
       pkg \o <<"__init__.py">>,
       pkg \o <<"env.py">>,
       pkg \o <<"db.py">>,
       RootPath \o <<"test", "sample_test.py">>,
       pkg \o <<"main.py">>,
       RootPath \o <<"config", "DEV.yaml">> >>

\* C20: make_files creates and writes the manifest entries in order; after a
\* failed creation or write no later entry is attempted, and when make_files
\* returns the error every entry before the failing one is on disk with its
\* full content.
C20_FilesInManifestOrder ==
    LET creates == Calls("file_create")
        writes == Calls("write_all")
    IN /\ Len(creates) <= Len(ManifestOrder)
       /\ Len(writes) <= Len(creates)
       /\ Len(creates) <= Len(writes) + 1
       /\ \A k \in 1..Len(creates) : creates[k].path = ManifestOrder[k]
       /\ \A k \in 1..Len(writes) : writes[k].path = ManifestOrder[k]
       /\ \A k \in 1..(Len(creates) - 1) : creates[k].ok
       /\ \A k \in 1..(Len(writes) - 1) : writes[k].ok
       /\ Len(creates) > Len(writes) =>
             \A k \in 1..Len(writes) : writes[k].ok
       /\ pc = "files_fallback" =>
             /\ LastOp.op \in {"file_create", "write_all"}
             /\ ~LastOp.ok
             /\ Removals = {}
             /\ \A k \in 1..(Len(creates) - 1) :
                   /\ ManifestOrder[k] \in DOMAIN fs.files
                   /\ fs.files[ManifestOrder[k]] = ExpectedFiles[ManifestOrder[k]]
             /\ \A k \in (Len(creates) + 1)..Len(ManifestOrder) :
                   ManifestOrder[k] \notin DOMAIN fs.files

C20_Witness ==
    /\ pc = "files_fallback"
    /\ Len(Calls("file_create")) = 3
    /\ Len(Calls("write_all")) = 3
    /\ fs.files[<<"w", "My-Project", "pyproject.toml">>] =
          "[project]\nname = \"my_pkg\"\nversion = \"0.1.0\"\n"
    /\ <<"w", "My-Project", "src", "my_pkg", "__init__.py">> \notin DOMAIN fs.files

\* The phase a filesystem call belongs to.
Rank(op) ==
    IF op = "current_dir" THEN 1
    ELSE IF op = "create_dir" THEN 2
    ELSE IF op \in {"file_create", "write_all"} THEN 3
    ELSE 4

FileOps == Ops("file_create") \cup Ops("write_all")

\* The terminal outcomes of a run.
EndSuccess == result = Success /\ OkCount("write_all") = 9

EndNameInvalid == result = NameError /\ oplog = <<>>

EndDirectoryFailed ==
    /\ result = IOError
    /\ FileOps = {}
    /\ Failed("current_dir") \/ Failed("create_dir")

EndFileFailed == result = IOError /\ FilePhaseFailed /\ ~Failed("create_dir")

\* C21: the calls of a run follow the phase order (lookup, directories,
\* files, removal) with no phase skipped or revisited: no call is made before
\* both names validated, no file call before every planned directory was
\* created, and a finished run has exactly one of the outcomes success,
\* NameInvalid, DirectoryFailed, FileFailed.
C21_PhaseOrder ==
    /\ \A i, j \in DOMAIN oplog :
          i < j => Rank(oplog[i].op) <= Rank(oplog[j].op)
    /\ Cardinality(Ops("current_dir")) <= 1
    /\ pc \in {"check_project", "check_pkg"} => (oplog = <<>> /\ fs = pre)
    /\ oplog # <<>> => NamesValid
    /\ Ops("create_dir") # {} => (Ops("current_dir") # {} /\ ~Failed("current_dir"))
    /\ (FileOps # {} \/ pc \in {"make_files", "write_file", "files_fallback"})
          => /\ OkCount("create_dir") = 7 + Count(args.include_doc_dir)
             /\ ~Failed("create_dir")
    /\ Done => Count(EndSuccess) + Count(EndNameInvalid)
                  + Count(EndDirectoryFailed) + Count(EndFileFailed) = 1

C21_Witness ==
    /\ Done
    /\ EndFileFailed
    /\ OkCount("create_dir") = 8
    /\ OkCount("write_all") = 2
    /\ Removals # {}

\* C22: with two valid names and a failed working-directory lookup,
\* build_skeleton returns IOError, having created nothing and attempted no
\* removal.
C22_LookupFailureNoEffect ==
    (Done /\ NamesValid /\ Failed("current_dir"))
    => /\ result = IOError
       /\ fs = pre
       /\ Ops("create_dir") = {}
       /\ FileOps = {}
       /\ Removals = {}

C22_Witness ==
    /\ Done
    /\ NamesValid
    /\ Failed("current_dir")
    /\ Len(oplog) = 1
    /\ result = IOError

\* C23 (as stated): every directory and file that existed before the call
\* exists when the call returns, a directory found at the root path included.
C23_PreExistingKept ==
    Done => /\ pre.dirs \subseteq fs.dirs
            /\ DOMAIN pre.files \subseteq DOMAIN fs.files

\* C24: for validated names the parent of every manifest path (root,
\* root/src/package, root/test, root/config) is an entry of the directory
\* plan, with and without docs; once make_dirs has succeeded, a file call
\* fails only when a fault hits it, and a run without fault returns Ok.
C24_ManifestParentsPlanned ==
    pc \in {"current_dir", "make_dirs", "dirs_fallback", "make_files", "write_file",
            "files_fallback", "done"} /\ NamesValid
    => LET files == get_files(project_name, pkg_name)
           r == project_name
       IN /\ \A d \in BOOLEAN, k \in 1..Len(files) :
                \E i \in 1..Len(get_dirs(project_name, d, pkg_name)) :
                   get_dirs(project_name, d, pkg_name)[i] = ParentEntry(files[k][1])
          /\ {ParentEntry(files[k][1]) : k \in 1..Len(files)} =
                {r, r \o "/src/" \o pkg_name, r \o "/test", r \o "/config"}
          /\ \A i \in FileOps :
                /\ ~oplog[i].ok => oplog[i].fault
                /\ Parent(oplog[i].path) \in
                      {oplog[j].path : j \in {n \in Ops("create_dir") : oplog[n].ok}}
          /\ (/\ Done
              /\ OkCount("create_dir") = 7 + Count(args.include_doc_dir)
              /\ \A i \in FileOps : ~oplog[i].fault)
                => result = Success

C24_Witness ==
    /\ Done
    /\ result = Success
    /\ ~args.include_doc_dir
    /\ OkCount("create_dir") = 7
    /\ OkCount("file_create") = 9
    /\ \A i \in DOMAIN oplog : ~oplog[i].fault

\* C25 (as stated): with two names that validate, the empty ones included,
\* an existing working directory, nothing at the root path and no fault,
\* build_skeleton returns Ok.
C25_ValidNamesBuild ==
    (/\ Done
     /\ NamesValid
     /\ IsDir(pre, Cwd)
     /\ ~Exists(pre, RootPath)
     /\ \A i \in DOMAIN oplog : ~oplog[i].fault)
    => result = Success

====
